---------------------------- MODULE Spec2Model ----------------------------
(***************************************************************************)
(* Buffer-first, HIFO-optimised withdrawal engine                          *)
(* (src/src/retirement_engine.py, class CryptoRetirementApp).              *)
(*                                                                         *)
(* Numbers.  USD amounts are integers of one (arbitrary) USD unit; the     *)
(* arithmetic of the engine only ever compares and divides USD by USD, so  *)
(* the unit is free.  Asset quantities are integers of 10^-8 of an asset   *)
(* unit (the grain of round(x, 8)); a quantity that the code does not      *)
(* round is kept as an exact fraction [num, den].  USD values that are the *)
(* product of a quantity and a price are therefore in 10^-8 USD.           *)
(* Python floats are modelled by the exact values they approximate.        *)
(***************************************************************************)
EXTENDS Integers, Sequences, FiniteSets, TLC

VARIABLES
    monthly_need,    \* self.monthly_need
    buffer_target,   \* self.buffer_target
    cash_buffer,     \* self.cash_buffer
    tax_lots,        \* self.tax_lots, a sequence of TaxLot records
    op,              \* the method that ran last
    args,            \* its arguments, and the balance it started from
    output,          \* the dict returned by the last calculate_attack_strategy
    plan,            \* the list returned by the last direct get_hifo_sell_plan
    long_term,       \* the value returned by the last direct is_long_term
    since_refill,    \* history (RunSpec): decisions since the last REFILL BUFFER
    refused,         \* history (RunSpec): run of INSUFFICIENT FUNDS decisions
    loading,         \* the last call that loaded lot records, and how it ended
    holdings,        \* Portfolio.holdings, a sequence of Holding records
    pf_op,           \* the Portfolio operation that ran last
    pf_args,         \* its arguments
    pf_ret,          \* the value it returned
    exit_plan,       \* ExitStrategy.exit_plan
    recommendations, \* ExitStrategy.recommendations
    ex_op,           \* the ExitStrategy operation attempted last, with its arguments
    ex_ret           \* the value it returned, or the exception it raised

engine_vars ==
    <<monthly_need, buffer_target, cash_buffer, tax_lots, op, args, output, plan,
      long_term, since_refill, refused, loading>>

portfolio_vars == <<holdings, pf_op, pf_args, pf_ret>>

exit_vars == <<exit_plan, recommendations, ex_op, ex_ret>>

vars == <<engine_vars, portfolio_vars, exit_vars>>

---------------------------------------------------------------------------
(* Program constants *)

\* round(x, 8): quantities are kept to 8 fractional digits
QtyScale == 100000000

\* buffer_target = monthly_need * 12 * buffer_years
MonthsPerYear == 12

\* refill threshold buffer_target * 0.8, as the fraction 4/5
ThresholdNum == 4
ThresholdDen == 5

---------------------------------------------------------------------------
(* Bounds of the model *)

\* largest USD amount a refill may ask for (keeps amount * QtyScale in range)
MaxNeeded == 16

\* the starting cash is at most this far below the target
MaxGap == 5

\* number of lots in a store
MaxLots == 2

\* largest target of a direct get_hifo_sell_plan call
MaxTarget == 4

\* the count of decisions since a refill stops here
MaxCalls == 14

\* the length of a run of refused refills stops here
MaxRefused == 2

\* largest value TLC's integers hold
MaxInt == 2147483646 + 1

---------------------------------------------------------------------------
(* Input domains *)

MonthlyNeeds == {0, 1, 5}
BufferYears == {1, 2}

\* unit prices, positive
Prices == {1, 3, 50}

\* available BTC quantity, in 10^-8 BTC
BtcBalances == {0, QtyScale, 5 * QtyScale}

NoDate == [kind |-> "empty", y |-> 0, m |-> 0, d |-> 0]
BadDate == [kind |-> "bad", y |-> 0, m |-> 0, d |-> 0]
Date(y, m, d) == [kind |-> "date", y |-> y, m |-> m, d |-> d]

\* reference dates passed as current_date
CurrentDates == {Date(2025, 3, 1), Date(2024, 2, 29)}

\* TaxLot(lot_id, asset, amount, cost_basis_per_unit, date_acquired, fee_paid, location)
TaxLot(id, asset, amount, basis, date, loc) ==
    [lot_id |-> id, asset |-> asset, amount |-> amount,
     cost_basis_per_unit |-> basis, date_acquired |-> date,
     fee_paid |-> 0, location |-> loc]

\* the lots a store is loaded from: two BTC lots of equal cost basis, an ETH
\* lot of lower basis, and the lot a row without numbers defaults to (amount 0)
LotPool ==
    { TaxLot("tx_a", "BTC", 2 * QtyScale, 3, Date(2021, 11, 10), "Cold Wallet"),
      TaxLot("tx_b", "BTC", QtyScale, 3, Date(2024, 6, 15), "Coinbase"),
      TaxLot("tx_e", "ETH", 3 * QtyScale, 2, BadDate, "Ledger"),
      TaxLot("tx_z", "BTC", 0, 0, NoDate, "") }

\* sequences of distinct lots of the pool, at most MaxLots long
RECURSIVE StoresOfLen(_)
StoresOfLen(n) ==
    IF n = 0 THEN {<<>>}
    ELSE { Append(s, l) : s \in StoresOfLen(n - 1), l \in LotPool }

Distinct(s) == \A i, j \in 1..Len(s) : i # j => s[i].lot_id # s[j].lot_id

Stores == UNION { { s \in StoresOfLen(n) : Distinct(s) } : n \in 0..MaxLots }

---------------------------------------------------------------------------
(* Exact fractions *)

Rat(n, d) == [num |-> n, den |-> d]
Zero == Rat(0, 1)

\* a/b + c/d
RatAdd(a, b) ==
    IF a.den = b.den THEN Rat(a.num + b.num, a.den)
    ELSE Rat(a.num * b.den + b.num * a.den, a.den * b.den)

\* a/b = c/d, by long division (no products)
RatEq(a, b) ==
    /\ a.num \div a.den = b.num \div b.den
    /\ (a.num % a.den) * b.den = (b.num % b.den) * a.den

\* a/b <= c for an integer c  (b > 0)
RatLeqInt(a, c) ==
    \/ a.num \div a.den < c
    \/ a.num \div a.den = c /\ a.num % a.den = 0

\* a/b > 0  (b > 0)
RatPositive(a) == a.num > 0

\* round(n / d) to the nearest integer, ties to even, as Python's round does
RoundHalfEven(n, d) ==
    LET q == n \div d
        r == n % d
    IN  IF 2 * r < d THEN q
        ELSE IF 2 * r > d THEN q + 1
        ELSE IF q % 2 = 0 THEN q ELSE q + 1

---------------------------------------------------------------------------
(* Dates *)

IsLeap(y) == (y % 4 = 0 /\ y % 100 # 0) \/ y % 400 = 0

\* variant: a < b on calendar dates
DateBefore(a, b) ==
    \/ a.y < b.y
    \/ a.y = b.y /\ a.m < b.m
    \/ a.y = b.y /\ a.m = b.m /\ a.d < b.d

\* a <= b on calendar dates
DateLeq(a, b) ==
    \/ a.y < b.y
    \/ a.y = b.y /\ a.m < b.m
    \/ a.y = b.y /\ a.m = b.m /\ a.d <= b.d

\* is_long_term(date_acquired, current_date).  strptime raises on an
\* unparsable string and datetime.replace raises when the day does not exist
\* in the new year; the bare except turns both into False.  An empty string
\* stands for current_date itself.
is_long_term(date_acquired, current_date) ==
    IF date_acquired.kind = "bad" THEN FALSE
    ELSE LET acquisition_date ==
                 IF date_acquired.kind = "empty" THEN current_date ELSE date_acquired
             replace_raises ==
                 current_date.m = 2 /\ current_date.d = 29 /\ ~IsLeap(current_date.y - 1)
             one_year_ago == Date(current_date.y - 1, current_date.m, current_date.d)
         IN  IF replace_raises THEN FALSE
             ELSE DateLeq(acquisition_date, one_year_ago)

---------------------------------------------------------------------------
(* get_hifo_sell_plan *)

\* estimated_gain_loss = per_unit * qty, kept as its two factors
Gain(per_unit, qty) == [per_unit |-> per_unit, qty |-> qty]

ManualKeys == {"lot_id", "asset", "sell_amount", "estimated_gain_loss"}
SaleKeys == ManualKeys \cup {"cost_basis", "date_acquired", "location"}

\* variant: the target is not divided by the price
ManualSaleNoDivide(usd_target, current_price) ==
    [keys |-> ManualKeys, lot_id |-> "manual", asset |-> "BTC",
     sell_amount |-> Rat(usd_target * QtyScale, 1),
     cost_basis |-> 0, estimated_gain_loss |-> Gain(0, Zero),
     date_acquired |-> NoDate, location |-> ""]

\* the instruction of the empty store; the keys it lacks read as their
\* .get defaults
ManualSale(usd_target, current_price) ==
    [keys |-> ManualKeys, lot_id |-> "manual", asset |-> "BTC",
     sell_amount |-> Rat(usd_target * QtyScale, current_price),
     cost_basis |-> 0, estimated_gain_loss |-> Gain(0, Zero),
     date_acquired |-> NoDate, location |-> ""]

\* "Sell whole lot"
WholeSale(lot, current_price) ==
    [keys |-> SaleKeys, lot_id |-> lot.lot_id, asset |-> lot.asset,
     sell_amount |-> Rat(lot.amount, 1),
     cost_basis |-> lot.cost_basis_per_unit,
     estimated_gain_loss |->
         Gain(current_price - lot.cost_basis_per_unit, Rat(lot.amount, 1)),
     date_acquired |-> lot.date_acquired, location |-> lot.location]

\* variant: the gain is computed from the rounded quantity
FractionSaleRoundedGain(lot, remaining, current_price) ==
    [keys |-> SaleKeys, lot_id |-> lot.lot_id, asset |-> lot.asset,
     sell_amount |-> Rat(RoundHalfEven(remaining, current_price), 1),
     cost_basis |-> lot.cost_basis_per_unit,
     estimated_gain_loss |->
         Gain(current_price - lot.cost_basis_per_unit,
              Rat(RoundHalfEven(remaining, current_price), 1)),
     date_acquired |-> lot.date_acquired, location |-> lot.location]

\* "Sell fraction of lot": fraction_to_sell = remaining / price, the quantity
\* rounded to 8 digits, the gain computed from the unrounded fraction
FractionSale(lot, remaining, current_price) ==
    [keys |-> SaleKeys, lot_id |-> lot.lot_id, asset |-> lot.asset,
     sell_amount |-> Rat(RoundHalfEven(remaining, current_price), 1),
     cost_basis |-> lot.cost_basis_per_unit,
     estimated_gain_loss |->
         Gain(current_price - lot.cost_basis_per_unit, Rat(remaining, current_price)),
     date_acquired |-> lot.date_acquired, location |-> lot.location]

\* variant: the lots are ordered by ascending cost basis
RECURSIVE InsertAscending(_, _)
InsertAscending(s, x) ==
    IF s = <<>> THEN <<x>>
    ELSE IF Head(s).cost_basis_per_unit <= x.cost_basis_per_unit
         THEN <<Head(s)>> \o InsertAscending(Tail(s), x)
         ELSE <<x>> \o s

\* variant: x is put before the elements of equal cost basis
RECURSIVE InsertDescUnstable(_, _)
InsertDescUnstable(s, x) ==
    IF s = <<>> THEN <<x>>
    ELSE IF Head(s).cost_basis_per_unit > x.cost_basis_per_unit
         THEN <<Head(s)>> \o InsertDescUnstable(Tail(s), x)
         ELSE <<x>> \o s

\* s with x put after every element whose cost basis is >= x's
RECURSIVE InsertDesc(_, _)
InsertDesc(s, x) ==
    IF s = <<>> THEN <<x>>
    ELSE IF Head(s).cost_basis_per_unit >= x.cost_basis_per_unit
         THEN <<Head(s)>> \o InsertDesc(Tail(s), x)
         ELSE <<x>> \o s

\* sorted(lots, key=cost_basis_per_unit, reverse=True): descending, stable
RECURSIVE SortUpTo(_, _)
SortUpTo(lots, n) ==
    IF n = 0 THEN <<>> ELSE InsertDesc(SortUpTo(lots, n - 1), lots[n])

sorted_lots(lots) == SortUpTo(lots, Len(lots))

\* variant: every lot reached is sold whole
SellsWholeAlways(lot_value_usd, remaining_usd_needed) == TRUE

\* whether the loop sells the whole lot
SellsWhole(lot_value_usd, remaining_usd_needed) ==
    lot_value_usd <= remaining_usd_needed

\* variant: the loop goes on after the fraction, the need left as it was
RECURSIVE HifoLoopNoStop(_, _, _, _, _)
HifoLoopNoStop(lots, i, remaining_usd_needed, current_price, sell_plan) ==
    IF i > Len(lots) \/ remaining_usd_needed <= 0 THEN sell_plan
    ELSE LET lot == lots[i]
             lot_value_usd == lot.amount * current_price
         IN  IF SellsWhole(lot_value_usd, remaining_usd_needed)
             THEN HifoLoopNoStop(lots, i + 1, remaining_usd_needed - lot_value_usd,
                                 current_price,
                                 Append(sell_plan, WholeSale(lot, current_price)))
             ELSE HifoLoopNoStop(lots, i + 1, remaining_usd_needed, current_price,
                                 Append(sell_plan,
                                        FractionSale(lot, remaining_usd_needed,
                                                     current_price)))

\* the for loop over sorted_lots from position i on; remaining in 10^-8 USD
RECURSIVE HifoLoop(_, _, _, _, _)
HifoLoop(lots, i, remaining_usd_needed, current_price, sell_plan) ==
    IF i > Len(lots) \/ remaining_usd_needed <= 0 THEN sell_plan
    ELSE LET lot == lots[i]
             lot_value_usd == lot.amount * current_price
         IN  IF SellsWhole(lot_value_usd, remaining_usd_needed)
             THEN HifoLoop(lots, i + 1, remaining_usd_needed - lot_value_usd,
                           current_price,
                           Append(sell_plan, WholeSale(lot, current_price)))
             ELSE HifoLoop(lots, i + 1, 0, current_price,
                           Append(sell_plan,
                                  FractionSale(lot, remaining_usd_needed, current_price)))

get_hifo_sell_plan(lots, usd_target, current_price) ==
    IF lots = <<>> THEN <<ManualSale(usd_target, current_price)>>
    ELSE HifoLoop(sorted_lots(lots), 1, usd_target * QtyScale, current_price, <<>>)

---------------------------------------------------------------------------
(* calculate_attack_strategy *)

\* sum(s["sell_amount"] for s in sell_plan if s["asset"] == asset)
RECURSIVE SumSold(_, _, _)
SumSold(sell_plan, asset, n) ==
    IF n = 0 THEN Zero
    ELSE IF sell_plan[n].asset = asset
         THEN RatAdd(SumSold(sell_plan, asset, n - 1), sell_plan[n].sell_amount)
         ELSE SumSold(sell_plan, asset, n - 1)

total_sell(sell_plan, asset) == SumSold(sell_plan, asset, Len(sell_plan))

\* variant: the need of the month is taken twice
SpendTwice(cash, need) == cash - need - need

\* variant: the balance is floored at zero
SpendFloored(cash, need) == IF cash - need < 0 THEN 0 ELSE cash - need

\* "Monthly Spend: Subtract monthly need from buffer"
Spend(cash, need) == cash - need

\* variant: a balance of exactly 80% of the target is refilled too
NeedsRefillInclusive(cash, target) == cash * ThresholdDen <= target * ThresholdNum

\* "Check if Buffer needs refilling (Threshold at 80%)"
NeedsRefill(cash, target) == cash * ThresholdDen < target * ThresholdNum

\* the test as the floats decide it.  Where the exact balance is below or
\* above 80% of the target the floats agree; where the two are equal, the
\* rounding of the running balance and of buffer_target * 0.8 decides, and
\* rounds_below says that the balance came out the lower of the two (as with
\* monthly_need = 1000.37, buffer_years = 5; never with whole amounts)
ComparesBelow(cash, target, rounds_below) ==
    \/ NeedsRefill(cash, target)
    \/ rounds_below /\ cash * ThresholdDen = target * ThresholdNum

\* the outer test of "Check if sufficient funds"
FundsCheck(total_sell_btc, total_sell_eth, btc_balance) ==
    \/ RatLeqInt(total_sell_btc, btc_balance)
    \/ RatPositive(RatAdd(total_sell_btc, total_sell_eth))

\* variant: the outer test alone decides, the inner one is dropped
RefillUnchecked(total_sell_btc, btc_balance) == TRUE

\* variant: the inner test is strict
RefillAllowedStrict(total_sell_btc, btc_balance) ==
    ~RatLeqInt(Rat(btc_balance, 1), total_sell_btc.num \div total_sell_btc.den)

\* the inner test, which alone lets the refill run
RefillAllowed(total_sell_btc, btc_balance) == RatLeqInt(total_sell_btc, btc_balance)

\* variant: the refill credits a unit above the amount needed
RefillCreditOver(amount_needed) == amount_needed + 1

\* variant: the refill credits the need of one month less
RefillCreditShort(amount_needed) == amount_needed - 1

\* the credit of "Execute refill"
RefillCredit(amount_needed) == amount_needed

\* variant: the warnings are collected last instruction first
RECURSIVE WarningsReversed(_, _, _)
WarningsReversed(sell_plan, current_date, n) ==
    IF n = 0 THEN <<>>
    ELSE LET rest == WarningsReversed(sell_plan, current_date, n - 1)
         IN  IF ~is_long_term(sell_plan[n].date_acquired, current_date)
             THEN <<sell_plan[n].lot_id>> \o rest
             ELSE rest

\* the lot ids of the short-term warnings, in plan order
RECURSIVE WarningsFor(_, _, _)
WarningsFor(sell_plan, current_date, n) ==
    IF n = 0 THEN <<>>
    ELSE LET rest == WarningsFor(sell_plan, current_date, n - 1)
         IN  IF ~is_long_term(sell_plan[n].date_acquired, current_date)
             THEN Append(rest, sell_plan[n].lot_id)
             ELSE rest

\* the dict the method starts from
InitialOutput(cash, target) ==
    [action |-> "HOLD", amount_to_sell_usd |-> 0, amount_to_sell_btc |-> 0,
     amount_to_sell_eth |-> 0, new_buffer |-> cash, buffer_before |-> cash,
     buffer_target |-> target, sell_plan |-> <<>>, warnings |-> <<>>]

\* the method as a function of the instance and its arguments: the dict it
\* returns and the balance it leaves
Strategy(cash, need, target, lots, btc_price, btc_balance, current_date, rounds_below) ==
    LET out0 == InitialOutput(cash, target)
        spent == Spend(cash, need)
    IN  IF ~ComparesBelow(spent, target, rounds_below) THEN [out |-> out0, cash |-> spent]
        ELSE
        LET amount_needed == target - spent
            sell_plan == get_hifo_sell_plan(lots, amount_needed, btc_price)
            total_sell_btc == total_sell(sell_plan, "BTC")
            total_sell_eth == total_sell(sell_plan, "ETH")
            out1 == [out0 EXCEPT !.amount_to_sell_usd = amount_needed,
                                 !.sell_plan = sell_plan]
        IN  IF FundsCheck(total_sell_btc, total_sell_eth, btc_balance)
            THEN IF RefillAllowed(total_sell_btc, btc_balance)
                 THEN LET refilled == spent + RefillCredit(amount_needed)
                      IN  [out |->
                             [out1 EXCEPT
                                !.action = "REFILL BUFFER",
                                !.amount_to_sell_btc =
                                    RoundHalfEven(total_sell_btc.num, total_sell_btc.den),
                                !.amount_to_sell_eth =
                                    IF total_sell_eth.num # 0
                                    THEN RoundHalfEven(total_sell_eth.num, total_sell_eth.den)
                                    ELSE 0,
                                !.new_buffer = refilled,
                                !.warnings =
                                    WarningsFor(sell_plan, current_date, Len(sell_plan))],
                           cash |-> refilled]
                 ELSE [out |-> [out1 EXCEPT !.action = "INSUFFICIENT FUNDS"],
                       cash |-> spent]
            ELSE [out |-> out1, cash |-> spent]

---------------------------------------------------------------------------
(* The instance and its methods *)

NoArgs ==
    [btc_price |-> 0, btc_balance |-> 0, current_date |-> NoDate,
     usd_target |-> 0, cash_before |-> 0, date_acquired |-> NoDate]

\* no dict / no list returned by the last call
NoOutput == InitialOutput(0, 0)
NoPlan == <<>>

\* variant: the lots are depleted by the quantities of the plan
DepleteStore(lots, sell_plan) ==
    [i \in 1..Len(lots) |->
        LET sold == { j \in 1..Len(sell_plan) : sell_plan[j].lot_id = lots[i].lot_id }
        IN  IF sold = {} THEN lots[i]
            ELSE [lots[i] EXCEPT !.amount = @ - sell_plan[CHOOSE j \in sold : TRUE].sell_amount.num]]

\* the store after a plan was computed from it: the loop only reads the lots
StoreAfter(lots, sell_plan) == lots

\* the arithmetic of a call at this price stays within TLC's integers
InRange(lots, price) ==
    \A i \in 1..Len(lots) : lots[i].amount <= MaxInt \div (2 * price)

\* nothing returned yet
NoReturn == [kind |-> "none"]

\* the arguments of the Portfolio operations, each at its default
NoPrices == [a \in {} |-> 0]
NoPfArgs ==
    [input |-> <<>>, prices |-> NoPrices, index |-> 0,
     total_value |-> 0, total_cost |-> 0]

\* no Portfolio is in use: Portfolio() holds nothing
PortfolioIdle ==
    /\ holdings = <<>>
    /\ pf_op = "__init__"
    /\ pf_args = NoPfArgs
    /\ pf_ret = NoReturn

\* ExitStrategy.__init__: exit_plan = None, recommendations = []; nothing
\* has been called
NoExitPlan == [kind |-> "none"]
NoAnalysis == [k \in {} |-> 0]
NoCall ==
    [name |-> "none", retirement_goal |-> 0, risk_tolerance |-> "",
     analysis |-> NoAnalysis]
ExitIdle ==
    /\ exit_plan = NoExitPlan
    /\ recommendations = <<>>
    /\ ex_op = NoCall
    /\ ex_ret = NoReturn

\* no REFILL BUFFER decision has been returned yet
NoRefill == 0 - 1

\* no lot records have been loaded
NoLoading == [call |-> "none", data |-> <<>>, ret |-> NoReturn]

\* CryptoRetirementApp(monthly_need, buffer_years, current_cash)
Init ==
    \E need \in MonthlyNeeds, years \in BufferYears :
        /\ monthly_need = need
        /\ buffer_target = need * MonthsPerYear * years
        /\ cash_buffer \in (buffer_target - MaxGap)..(buffer_target + 1)
        /\ tax_lots = <<>>
        /\ op = "__init__"
        /\ args = NoArgs
        /\ output = NoOutput
        /\ plan = NoPlan
        /\ long_term = FALSE
        /\ since_refill = NoRefill
        /\ refused = 0
        /\ loading = NoLoading
        /\ PortfolioIdle
        /\ ExitIdle

\* the body of add_tax_lots: the store is replaced by the lots of the data
add_tax_lots(lots_data) ==
    /\ tax_lots' = lots_data
    /\ op' = "add_tax_lots"
    /\ args' = NoArgs
    /\ output' = NoOutput
    /\ plan' = NoPlan
    /\ long_term' = FALSE
    /\ UNCHANGED <<monthly_need, buffer_target, cash_buffer>>
    /\ UNCHANGED <<portfolio_vars, exit_vars>>

\* add_tax_lots(lots_data)
AddTaxLots(lots_data) ==
    /\ add_tax_lots(lots_data)
    /\ UNCHANGED <<since_refill, refused, loading>>

\* the body of calculate_attack_strategy
calculate_attack_strategy(btc_price, btc_balance, current_date, rounds_below) ==
    /\ buffer_target - (cash_buffer - monthly_need) <= MaxNeeded
    /\ InRange(tax_lots, btc_price)
    /\ LET r == Strategy(cash_buffer, monthly_need, buffer_target, tax_lots,
                         btc_price, btc_balance, current_date, rounds_below)
       IN  /\ cash_buffer' = r.cash
           /\ output' = r.out
           /\ tax_lots' = StoreAfter(tax_lots, r.out.sell_plan)
    /\ op' = "calculate_attack_strategy"
    /\ args' = [NoArgs EXCEPT !.btc_price = btc_price, !.btc_balance = btc_balance,
                              !.current_date = current_date,
                              !.cash_before = cash_buffer]
    /\ plan' = NoPlan
    /\ long_term' = FALSE
    /\ UNCHANGED <<monthly_need, buffer_target, loading>>
    /\ UNCHANGED <<portfolio_vars, exit_vars>>

\* calculate_attack_strategy(btc_price, btc_balance, current_date), on whole
\* amounts
CalculateAttackStrategy(btc_price, btc_balance, current_date) ==
    /\ calculate_attack_strategy(btc_price, btc_balance, current_date, FALSE)
    /\ UNCHANGED <<since_refill, refused>>

\* get_hifo_sell_plan(usd_target, current_price), called directly
GetHifoSellPlan(usd_target, current_price) ==
    /\ InRange(tax_lots, current_price)
    /\ plan' = get_hifo_sell_plan(tax_lots, usd_target, current_price)
    /\ tax_lots' = StoreAfter(tax_lots, plan')
    /\ op' = "get_hifo_sell_plan"
    /\ args' = [NoArgs EXCEPT !.usd_target = usd_target, !.btc_price = current_price,
                              !.cash_before = cash_buffer]
    /\ output' = NoOutput
    /\ long_term' = FALSE
    /\ UNCHANGED <<monthly_need, buffer_target, cash_buffer, since_refill, refused,
                   loading>>
    /\ UNCHANGED <<portfolio_vars, exit_vars>>

Next ==
    \/ \E lots_data \in Stores : AddTaxLots(lots_data)
    \/ \E p \in Prices, b \in BtcBalances, d \in CurrentDates :
           CalculateAttackStrategy(p, b, d)
    \/ \E t \in 0..MaxTarget, p \in Prices : GetHifoSellPlan(t, p)

Spec == Init /\ [][Next]_vars

---------------------------------------------------------------------------
(* Runs of calculate_attack_strategy calls, with their history recorded *)

\* buffer_years of the runs: 5 puts 80% of the target on a monthly step
RunYears == {1, 2, 5}

\* current_date of the runs
RunDate == Date(2025, 3, 1)

\* the decisions returned since the last REFILL BUFFER, this one included
CallsSince(since, action) ==
    IF action = "REFILL BUFFER" THEN 0
    ELSE IF since = NoRefill THEN NoRefill
    ELSE IF since < MaxCalls THEN since + 1 ELSE MaxCalls

\* the run of INSUFFICIENT FUNDS decisions this decision ends: it goes on
\* when the call before returned one too, for the same price and balance
RefusedRun(run, action, same_call) ==
    IF action # "INSUFFICIENT FUNDS" THEN 0
    ELSE IF run > 0 /\ same_call
         THEN IF run < MaxRefused THEN run + 1 ELSE MaxRefused
         ELSE 1

RunInit ==
    \E need \in MonthlyNeeds, years \in RunYears :
        /\ monthly_need = need
        /\ buffer_target = need * MonthsPerYear * years
        /\ cash_buffer \in (buffer_target - MaxGap)..(buffer_target + 1)
        /\ tax_lots = <<>>
        /\ op = "__init__"
        /\ args = NoArgs
        /\ output = NoOutput
        /\ plan = NoPlan
        /\ long_term = FALSE
        /\ since_refill = NoRefill
        /\ refused = 0
        /\ loading = NoLoading
        /\ PortfolioIdle
        /\ ExitIdle

\* add_tax_lots(lots_data) within a run: a new store ends a run of refusals
RunAddTaxLots(lots_data) ==
    /\ add_tax_lots(lots_data)
    /\ refused' = 0
    /\ UNCHANGED <<since_refill, loading>>

\* calculate_attack_strategy(btc_price, btc_balance, current_date) within a
\* run, on amounts that may carry cents
RunCalculate(btc_price, btc_balance, current_date, rounds_below) ==
    /\ calculate_attack_strategy(btc_price, btc_balance, current_date, rounds_below)
    /\ since_refill' = CallsSince(since_refill, output'.action)
    /\ refused' =
           RefusedRun(refused, output'.action,
                      /\ args.btc_price = btc_price
                      /\ args.btc_balance = btc_balance)

RunNext ==
    \/ \E lots_data \in Stores : RunAddTaxLots(lots_data)
    \/ \E p \in Prices, b \in BtcBalances, rounds_below \in BOOLEAN :
           RunCalculate(p, b, RunDate, rounds_below)

RunSpec == RunInit /\ [][RunNext]_vars

---------------------------------------------------------------------------
(* is_long_term called directly, on an instance that holds nothing *)

\* the years and the days of the year the dates are drawn from
DateYears == 2021..2025
RefYears == 2024..2025
MonthDays == {<<2, 28>>, <<2, 29>>, <<3, 1>>, <<6, 15>>}

\* the day exists in the year
ValidDate(y, md) == md = <<2, 29>> => IsLeap(y)

\* date_acquired: a parsable date, the empty string or an unparsable string
AcquiredDates ==
    { Date(p[1], p[2][1], p[2][2]) :
        p \in { q \in DateYears \X MonthDays : ValidDate(q[1], q[2]) } }
        \cup {NoDate, BadDate}

\* current_date
ReferenceDates ==
    { Date(p[1], p[2][1], p[2][2]) :
        p \in { q \in RefYears \X MonthDays : ValidDate(q[1], q[2]) } }

\* CryptoRetirementApp(0, 0, 0)
EngineIdle ==
    /\ monthly_need = 0
    /\ buffer_target = 0
    /\ cash_buffer = 0
    /\ tax_lots = <<>>
    /\ op = "__init__"
    /\ args = NoArgs
    /\ output = NoOutput
    /\ plan = NoPlan
    /\ long_term = FALSE
    /\ since_refill = NoRefill
    /\ refused = 0
    /\ loading = NoLoading

DateInit == EngineIdle /\ PortfolioIdle /\ ExitIdle

\* is_long_term(date_acquired, current_date)
IsLongTerm(date_acquired, current_date) ==
    /\ long_term' = is_long_term(date_acquired, current_date)
    /\ op' = "is_long_term"
    /\ args' = [NoArgs EXCEPT !.date_acquired = date_acquired,
                              !.current_date = current_date]
    /\ UNCHANGED <<monthly_need, buffer_target, cash_buffer, tax_lots, output, plan,
                   since_refill, refused, loading>>
    /\ UNCHANGED <<portfolio_vars, exit_vars>>

DateNext ==
    \E date_acquired \in AcquiredDates, current_date \in ReferenceDates :
        IsLongTerm(date_acquired, current_date)

DateSpec == DateInit /\ [][DateNext]_vars

---------------------------------------------------------------------------
(* Portfolio (portfolio.py): amounts, costs and prices are small integers,
   percentages and the risk score are exact fractions *)

Percent == 100
ConcentrationWeight == 50
VolatilityWeight == 50
MaxScore == 100
PerAsset == 10
PerType == 15
TopCount == 5
HighRisk == 75
LowDiversification == 40
LargeGain == 50

volatile_assets == {"BTC", "ETH", "SOL", "MATIC"}

\* the bound on the number of holdings
MaxHoldings == 2

\* Holding(asset, amount, avg_cost, current_price)
Holding(asset, amount, avg_cost, current_price) ==
    [asset |-> asset, amount |-> amount, avg_cost |-> avg_cost,
     current_price |-> current_price, symbol |-> ""]

cost_basis(h) == h.amount * h.avg_cost

current_value(h) == h.amount * h.current_price

\* variant: cost less value
unrealized_pnl_reversed(h) == cost_basis(h) - current_value(h)

unrealized_pnl(h) == current_value(h) - cost_basis(h)

pnl_percentage(h) ==
    IF cost_basis(h) = 0 THEN Zero
    ELSE Rat(unrealized_pnl(h) * Percent, cost_basis(h))

\* add_holding: `current_price or avg_cost`; 0 stands for None and for 0.0,
\* both of which select avg_cost
add_holding(asset, amount, avg_cost, current_price) ==
    Holding(asset, amount, avg_cost,
            IF current_price = 0 THEN avg_cost ELSE current_price)

\* variant: an asset that is not a key is priced 0
update_prices_default(hs, prices) ==
    [i \in 1..Len(hs) |->
        [hs[i] EXCEPT !.current_price =
            IF hs[i].asset \in DOMAIN prices THEN prices[hs[i].asset] ELSE 0]]

\* update_prices: a dict is a function from its keys
update_prices(hs, prices) ==
    [i \in 1..Len(hs) |->
        IF hs[i].asset \in DOMAIN prices
        THEN [hs[i] EXCEPT !.current_price = prices[hs[i].asset]]
        ELSE hs[i]]

\* sum of the current values of the first n holdings whose asset is in assets
RECURSIVE ValueIn(_, _, _)
ValueIn(hs, assets, n) ==
    IF n = 0 THEN 0
    ELSE ValueIn(hs, assets, n - 1)
             + (IF hs[n].asset \in assets THEN current_value(hs[n]) ELSE 0)

RECURSIVE TotalValue(_, _)
TotalValue(hs, n) ==
    IF n = 0 THEN 0 ELSE TotalValue(hs, n - 1) + current_value(hs[n])

RECURSIVE TotalCost(_, _)
TotalCost(hs, n) ==
    IF n = 0 THEN 0 ELSE TotalCost(hs, n - 1) + cost_basis(hs[n])

\* max(values), for n >= 1
RECURSIVE MaxValue(_, _)
MaxValue(hs, n) ==
    IF n = 1 THEN current_value(hs[1])
    ELSE LET m == MaxValue(hs, n - 1)
         IN  IF current_value(hs[n]) > m THEN current_value(hs[n]) ELSE m

\* min(risk, 100.0) for a fraction of positive denominator
CapScore(r) == IF r.num > MaxScore * r.den THEN Rat(MaxScore, 1) ELSE r

\* variant: the concentration term weighs 100
RiskWeighsTopTwice(hs) ==
    IF hs = <<>> THEN Zero
    ELSE LET total_value == TotalValue(hs, Len(hs))
         IN  IF total_value > 0
             THEN CapScore(Rat(MaxValue(hs, Len(hs)) * 2 * ConcentrationWeight
                                   + ValueIn(hs, volatile_assets, Len(hs)) * VolatilityWeight,
                               total_value))
             ELSE Zero

\* _calculate_risk
calculate_risk(hs) ==
    IF hs = <<>> THEN Zero
    ELSE LET total_value == TotalValue(hs, Len(hs))
         IN  IF total_value > 0
             THEN CapScore(Rat(MaxValue(hs, Len(hs)) * ConcentrationWeight
                                   + ValueIn(hs, volatile_assets, Len(hs)) * VolatilityWeight,
                               total_value))
             ELSE Zero

\* _get_asset_type
get_asset_type(asset) ==
    IF asset = "BTC" THEN "BTC"
    ELSE IF asset = "ETH" THEN "ETH"
    ELSE IF asset \in {"USDC", "USDT", "DAI"} THEN "STABLECOIN"
    ELSE "ALTCOIN"

\* _calculate_diversification: unique_count is the length of the list of the
\* holdings' assets, a repeated asset counted each time
calculate_diversification(hs) ==
    IF hs = <<>> THEN 0
    ELSE LET unique_count == Len([i \in 1..Len(hs) |-> hs[i].asset])
             asset_types == { get_asset_type(hs[i].asset) : i \in 1..Len(hs) }
             score == unique_count * PerAsset + Cardinality(asset_types) * PerType
         IN  IF score > MaxScore THEN MaxScore ELSE score

\* PortfolioAnalysis(total_value, total_cost): the other fields keep their
\* defaults
PortfolioAnalysis(total_value, total_cost) ==
    [kind |-> "analysis", total_value |-> total_value, total_cost |-> total_cost,
     unrealized_pnl |-> 0, pnl_percentage |-> Zero, holdings_count |-> 0,
     top_holdings |-> <<>>, risk_score |-> Zero, diversification_score |-> 0,
     rebalance_needed |-> FALSE, recommendations |-> <<>>]

\* _generate_recommendations
generate_recommendations(hs, analysis) ==
    (IF analysis.risk_score.num > HighRisk * analysis.risk_score.den
     THEN <<"diversify">> ELSE <<>>)
    \o (IF analysis.diversification_score < LowDiversification
        THEN <<"add variety">> ELSE <<>>)
    \o (IF ~\E i \in 1..Len(hs) : hs[i].asset \in {"USDC", "USDT"}
        THEN <<"add stablecoins">> ELSE <<>>)
    \o (IF analysis.pnl_percentage.num > LargeGain * analysis.pnl_percentage.den
        THEN <<"take profit">> ELSE <<>>)

\* sorted(holdings, key=current_value, reverse=True): stable
RECURSIVE InsertByValue(_, _)
InsertByValue(s, h) ==
    IF s = <<>> THEN <<h>>
    ELSE IF current_value(Head(s)) >= current_value(h)
         THEN <<Head(s)>> \o InsertByValue(Tail(s), h)
         ELSE <<h>> \o s

RECURSIVE SortedByValue(_, _)
SortedByValue(hs, n) ==
    IF n = 0 THEN <<>> ELSE InsertByValue(SortedByValue(hs, n - 1), hs[n])

top_holdings(hs, total_value) ==
    LET sorted_holdings == SortedByValue(hs, Len(hs))
        k == IF Len(hs) < TopCount THEN Len(hs) ELSE TopCount
    IN  [i \in 1..k |->
            [asset |-> sorted_holdings[i].asset,
             value |-> current_value(sorted_holdings[i]),
             percentage |->
                 IF total_value # 0
                 THEN Rat(current_value(sorted_holdings[i]) * Percent, total_value)
                 ELSE Zero]]

\* Portfolio.analyze
analyze(hs) ==
    IF hs = <<>> THEN PortfolioAnalysis(0, 0)
    ELSE
    LET total_value == TotalValue(hs, Len(hs))
        total_cost == TotalCost(hs, Len(hs))
        a1 == [PortfolioAnalysis(total_value, total_cost) EXCEPT
                  !.holdings_count = Len(hs),
                  !.unrealized_pnl = total_value - total_cost,
                  !.pnl_percentage =
                      IF total_cost > 0
                      THEN Rat((total_value - total_cost) * Percent, total_cost)
                      ELSE Zero,
                  !.top_holdings = top_holdings(hs, total_value),
                  !.risk_score = calculate_risk(hs),
                  !.diversification_score = calculate_diversification(hs)]
    IN  [a1 EXCEPT !.recommendations = generate_recommendations(hs, a1)]

\* the arguments add_holding is called with: asset, amount, avg_cost,
\* current_price (0: not given)
HoldingInputs ==
    { <<"BTC", 2, 1, 0>>, <<"BTC", 1, 1, 4>>, <<"USDC", 3, 1, 0>>,
      <<"DAI", 2, 1, 0>>, <<"ADA", 1, 2, 1>>, <<"XRP", 1, 0, 0>> }

\* the dicts update_prices is called with
PriceMaps ==
    { NoPrices,
      [a \in {"BTC"} |-> 3],
      [a \in {"BTC", "XRP"} |-> IF a = "BTC" THEN 0 ELSE 5] }

\* the totals PortfolioAnalysis is constructed from, in units of 1000 USD
AnalysisTotals == {0, 80, 100}

PortfolioInit == EngineIdle /\ PortfolioIdle /\ ExitIdle

AddHolding(input) ==
    /\ Len(holdings) < MaxHoldings
    /\ LET h == add_holding(input[1], input[2], input[3], input[4])
       IN  /\ holdings' = Append(holdings, h)
           /\ pf_ret' = [kind |-> "holding", holding |-> h]
    /\ pf_op' = "add_holding"
    /\ pf_args' = [NoPfArgs EXCEPT !.input = input]
    /\ UNCHANGED <<engine_vars, exit_vars>>

UpdatePrices(prices) ==
    /\ holdings' = update_prices(holdings, prices)
    /\ pf_op' = "update_prices"
    /\ pf_args' = [NoPfArgs EXCEPT !.prices = prices]
    /\ pf_ret' = NoReturn
    /\ UNCHANGED <<engine_vars, exit_vars>>

Analyze ==
    /\ pf_ret' = analyze(holdings)
    /\ pf_op' = "analyze"
    /\ pf_args' = NoPfArgs
    /\ UNCHANGED <<holdings, engine_vars, exit_vars>>

\* PortfolioAnalysis(total_value=..., total_cost=...)
ConstructAnalysis(total_value, total_cost) ==
    /\ pf_ret' = PortfolioAnalysis(total_value, total_cost)
    /\ pf_op' = "PortfolioAnalysis"
    /\ pf_args' = [NoPfArgs EXCEPT !.total_value = total_value,
                                   !.total_cost = total_cost]
    /\ UNCHANGED <<holdings, engine_vars, exit_vars>>

\* the four properties of holdings[index] are read
ReadHolding(index) ==
    /\ index \in 1..Len(holdings)
    /\ pf_ret' = [kind |-> "properties",
                  cost_basis |-> cost_basis(holdings[index]),
                  current_value |-> current_value(holdings[index]),
                  unrealized_pnl |-> unrealized_pnl(holdings[index]),
                  pnl_percentage |-> pnl_percentage(holdings[index])]
    /\ pf_op' = "Holding"
    /\ pf_args' = [NoPfArgs EXCEPT !.index = index]
    /\ UNCHANGED <<holdings, engine_vars, exit_vars>>

PortfolioNext ==
    \/ \E input \in HoldingInputs : AddHolding(input)
    \/ \E prices \in PriceMaps : UpdatePrices(prices)
    \/ Analyze
    \/ \E tv \in AnalysisTotals, tc \in AnalysisTotals : ConstructAnalysis(tv, tc)
    \/ \E index \in 1..MaxHoldings : ReadHolding(index)

PortfolioSpec == PortfolioInit /\ [][PortfolioNext]_vars

---------------------------------------------------------------------------
(* ExitStrategy (exit_strategy.py) *)

\* the module compiles: it does not, the call ExitRecommendation(...) of
\* _create_recommendation lacks the comma between its last two keyword
\* arguments, so importing the module raises SyntaxError and none of its
\* classes is ever defined
ModuleCompiles == FALSE

SyntaxError == [kind |-> "SyntaxError"]

AggressiveGain == 50
DefaultGain == 100
AggressiveRisk == 70
DefaultRisk == 50
HoldingsInExit == 3
ShareDen == 4

ExitCondition(trigger, threshold) == [trigger |-> trigger, threshold |-> threshold]

\* _generate_conditions
generate_conditions(retirement_goal, risk_tolerance) ==
    << ExitCondition("target_value", retirement_goal),
       ExitCondition("percentage_gain",
                     IF risk_tolerance = "aggressive" THEN AggressiveGain ELSE DefaultGain),
       ExitCondition("risk_threshold",
                     IF risk_tolerance = "aggressive" THEN AggressiveRisk ELSE DefaultRisk) >>

\* ExitPlan(...)
ExitPlan(target_retirement_age, retirement_goal, risk_tolerance, exit_method) ==
    [kind |-> "plan", target_retirement_age |-> target_retirement_age,
     retirement_goal |-> retirement_goal, risk_tolerance |-> risk_tolerance,
     exit_method |-> exit_method,
     conditions |-> generate_conditions(retirement_goal, risk_tolerance)]

\* analysis.get(key, 0)
Get(analysis, key) == IF key \in DOMAIN analysis THEN analysis[key] ELSE 0

\* _check_condition
check_condition(condition, analysis) ==
    IF condition.trigger = "target_value"
    THEN Get(analysis, "total_value") >= condition.threshold
    ELSE IF condition.trigger = "percentage_gain"
    THEN Get(analysis, "pnl_percentage") >= condition.threshold
    ELSE IF condition.trigger = "risk_threshold"
    THEN Get(analysis, "risk_score") >= condition.threshold
    ELSE FALSE

\* _create_recommendation: a quarter of each of the first three holdings; in
\* the dict a later holding of the same asset replaces an earlier one
create_recommendation(condition, hs) ==
    LET k == IF Len(hs) < HoldingsInExit THEN Len(hs) ELSE HoldingsInExit
        last(a) == CHOOSE i \in 1..k :
                       hs[i].asset = a /\ \A j \in 1..k : hs[j].asset = a => j <= i
        assets == [a \in { hs[i].asset : i \in 1..k } |-> Rat(hs[last(a)].amount, ShareDen)]
    IN  [kind |-> "recommendation", trigger |-> condition.trigger,
         threshold |-> condition.threshold, priority |-> "high", assets |-> assets]

\* the recommendations of the first n conditions
RECURSIVE RecommendationsOf(_, _, _, _)
RecommendationsOf(conditions, analysis, hs, n) ==
    IF n = 0 THEN <<>>
    ELSE LET rest == RecommendationsOf(conditions, analysis, hs, n - 1)
         IN  IF check_condition(conditions[n], analysis)
             THEN Append(rest, create_recommendation(conditions[n], hs))
             ELSE rest

CreatePlanFirst ==
    [kind |-> "recommendation", trigger |-> "none", threshold |-> 0,
     priority |-> "high", assets |-> NoAnalysis]

\* generate_recommendations
exit_recommendations(current_plan, analysis, hs) ==
    IF current_plan = NoExitPlan THEN <<CreatePlanFirst>>
    ELSE RecommendationsOf(current_plan.conditions, analysis, hs,
                           Len(current_plan.conditions))

\* should_exit
should_exit(current_plan, analysis) ==
    IF current_plan = NoExitPlan THEN FALSE
    ELSE \E i \in 1..Len(current_plan.conditions) :
             check_condition(current_plan.conditions[i], analysis)

\* the arguments the methods are called with, in units of 100000 USD
RetirementGoals == {1, 5, 6}
RiskTolerances == {"conservative", "moderate", "aggressive"}
RetirementAge == 65
AnalysisDicts ==
    { [k \in {"total_value", "pnl_percentage", "risk_score"} |->
          IF k = "total_value" THEN t[1] ELSE IF k = "pnl_percentage" THEN t[2] ELSE t[3]] :
        t \in {0, 4, 5, 6} \X {0, 50, 100} \X {0, 50, 70, 80} } \cup {NoAnalysis}

ExitInit == EngineIdle /\ PortfolioIdle /\ ExitIdle

\* strategy.create_exit_plan(65, retirement_goal, risk_tolerance)
CreateExitPlan(retirement_goal, risk_tolerance) ==
    /\ ex_op' = [NoCall EXCEPT !.name = "create_exit_plan",
                               !.retirement_goal = retirement_goal,
                               !.risk_tolerance = risk_tolerance]
    /\ IF ModuleCompiles
       THEN /\ exit_plan' = ExitPlan(RetirementAge, retirement_goal, risk_tolerance, "gradual")
            /\ ex_ret' = exit_plan'
       ELSE /\ exit_plan' = exit_plan
            /\ ex_ret' = SyntaxError
    /\ UNCHANGED <<recommendations, engine_vars, portfolio_vars>>

\* strategy.should_exit(analysis)
ShouldExit(analysis) ==
    /\ ex_op' = [NoCall EXCEPT !.name = "should_exit", !.analysis = analysis]
    /\ ex_ret' = IF ModuleCompiles
                 THEN [kind |-> "bool", value |-> should_exit(exit_plan, analysis)]
                 ELSE SyntaxError
    /\ UNCHANGED <<exit_plan, recommendations, engine_vars, portfolio_vars>>

\* strategy.generate_recommendations(analysis)
GenerateRecommendations(analysis) ==
    /\ ex_op' = [NoCall EXCEPT !.name = "generate_recommendations", !.analysis = analysis]
    /\ IF ModuleCompiles
       THEN /\ recommendations' = exit_recommendations(exit_plan, analysis, holdings)
            /\ ex_ret' = [kind |-> "list", value |-> recommendations']
       ELSE /\ recommendations' = recommendations
            /\ ex_ret' = SyntaxError
    /\ UNCHANGED <<exit_plan, engine_vars, portfolio_vars>>

ExitNext ==
    \/ \E goal \in RetirementGoals, tolerance \in RiskTolerances :
           CreateExitPlan(goal, tolerance)
    \/ \E analysis \in AnalysisDicts : ShouldExit(analysis)
    \/ \E analysis \in AnalysisDicts : GenerateRecommendations(analysis)

ExitSpec == ExitInit /\ [][ExitNext]_vars

---------------------------------------------------------------------------
(* Loading lot records: parse_tax_lots_csv (csv_parser.py) and add_tax_lots
   on the dicts of a caller *)

\* csv_parser.py does not compile: line 117 opens append( and never closes
\* it, so importing the module raises SyntaxError and none of its functions
\* can be called
CsvParserCompiles == FALSE

\* float(x) on a text that is no number
ValueError == [kind |-> "ValueError"]

\* a cell of a row or a value of a dict: a number, a text that is no number
\* (the empty string is one), or nothing (a short row, a missing key)
Number(v) == [kind |-> "num", v |-> v]
Text == [kind |-> "text", v |-> 0]
Missing == [kind |-> "missing", v |-> 0]

\* a row of the CSV, or a dict of lots_data; quantities in 10^-8
LotRecord(id, asset, date, quantity, basis, fee) ==
    [lot_id |-> id, asset |-> asset, date_acquired |-> date, amount |-> quantity,
     cost_basis |-> basis, fee_paid |-> fee]

\* number of records in one call
MaxRecords == 2

\* a well-formed record, records with an unparsable or empty date, a short
\* row, a date on a leap day, and one record per unparsable numeric field
RecordPool ==
    { LotRecord("r_ok", "BTC", Date(2021, 11, 10), Number(QtyScale), Number(3), Number(1)),
      LotRecord("r_date", "BTC", BadDate, Number(QtyScale), Number(3), Number(1)),
      LotRecord("r_short", "BTC", NoDate, Missing, Missing, Missing),
      LotRecord("r_leap", "ETH", Date(2024, 2, 29), Number(QtyScale), Number(2), Missing),
      LotRecord("r_qty", "BTC", Date(2021, 11, 10), Text, Number(3), Number(1)),
      LotRecord("r_cost", "BTC", Date(2021, 11, 10), Number(QtyScale), Text, Number(1)),
      LotRecord("r_fee", "ETH", Date(2024, 6, 15), Number(QtyScale), Number(2), Text) }

RECURSIVE RecordsOfLen(_)
RecordsOfLen(n) ==
    IF n = 0 THEN {<<>>}
    ELSE { Append(s, r) : s \in RecordsOfLen(n - 1), r \in RecordPool }

RecordLists == UNION { RecordsOfLen(n) : n \in 0..MaxRecords }

\* float(values[k]) if len(values) > k else 0, and float(d.get(key, 0)):
\* the number, 0 for nothing; a text raises
FloatRaises(field) == field.kind = "text"
FloatOrDefault(field) == IF field.kind = "num" THEN field.v ELSE 0

\* some float() of the record raises
RecordRaises(record) ==
    \/ FloatRaises(record.amount)
    \/ FloatRaises(record.cost_basis)
    \/ FloatRaises(record.fee_paid)

\* lot["is_long_term"] of the parser: the acquisition date is compared with
\* itself a year earlier; strptime on a text that is no date, [0] on an empty
\* one and replace on a leap day raise, and the bare except answers True
csv_is_long_term(date_acquired) ==
    IF date_acquired.kind # "date" THEN TRUE
    ELSE IF /\ date_acquired.m = 2 /\ date_acquired.d = 29
            /\ ~IsLeap(date_acquired.y - 1)
         THEN TRUE
         ELSE DateLeq(date_acquired,
                      Date(date_acquired.y - 1, date_acquired.m, date_acquired.d))

\* the dict built for one row; n is len(tax_lots) at that point
ParsedLot(row, n) ==
    LET quantity == FloatOrDefault(row.amount)
        basis == FloatOrDefault(row.cost_basis)
        fee == FloatOrDefault(row.fee_paid)
    IN  [lot_id |-> <<"lot", n>>, asset |-> row.asset,
         date_acquired |-> row.date_acquired, amount |-> quantity,
         cost_basis |-> basis, fee_paid |-> fee,
         total_cost |-> quantity * basis + fee * QtyScale,
         is_long_term |-> csv_is_long_term(row.date_acquired)]

\* parse_tax_lots_csv(csv_content), on the rows below the header
parse_tax_lots_csv(rows) ==
    IF \E i \in 1..Len(rows) : RecordRaises(rows[i]) THEN ValueError
    ELSE [kind |-> "list",
          value |-> [i \in 1..Len(rows) |-> ParsedLot(rows[i], i - 1)]]

\* the TaxLot add_tax_lots builds from one dict
LotOf(d) ==
    [TaxLot(d.lot_id, d.asset, FloatOrDefault(d.amount),
            FloatOrDefault(d.cost_basis), d.date_acquired, "")
        EXCEPT !.fee_paid = FloatOrDefault(d.fee_paid)]

\* parse_tax_lots_csv(csv_content)
ParseTaxLotsCsv(rows) ==
    /\ loading' = [call |-> "parse_tax_lots_csv", data |-> rows,
                   ret |-> IF CsvParserCompiles THEN parse_tax_lots_csv(rows)
                           ELSE SyntaxError]
    /\ UNCHANGED <<monthly_need, buffer_target, cash_buffer, tax_lots, op, args,
                   output, plan, long_term, since_refill, refused>>
    /\ UNCHANGED <<portfolio_vars, exit_vars>>

\* add_tax_lots(lots_data) on dicts as a caller supplies them: the list is
\* built before it is assigned, so a float() that raises leaves the store
LoadTaxLots(lots_data) ==
    /\ IF \E i \in 1..Len(lots_data) : RecordRaises(lots_data[i])
       THEN /\ loading' = [call |-> "add_tax_lots", data |-> lots_data,
                           ret |-> ValueError]
            /\ UNCHANGED <<monthly_need, buffer_target, cash_buffer, tax_lots, op,
                           args, output, plan, long_term>>
            /\ UNCHANGED <<portfolio_vars, exit_vars>>
       ELSE /\ add_tax_lots([i \in 1..Len(lots_data) |-> LotOf(lots_data[i])])
            /\ loading' = [call |-> "add_tax_lots", data |-> lots_data,
                           ret |-> NoReturn]
    /\ UNCHANGED <<since_refill, refused>>

LoadInit == EngineIdle /\ PortfolioIdle /\ ExitIdle

LoadNext ==
    \/ \E rows \in RecordLists : ParseTaxLotsCsv(rows)
    \/ \E lots_data \in RecordLists : LoadTaxLots(lots_data)

LoadSpec == LoadInit /\ [][LoadNext]_vars

---------------------------------------------------------------------------
(* Views of the last call *)

Called == op = "calculate_attack_strategy"
Direct == op = "get_hifo_sell_plan"

\* the balance after the monthly decrement of the last call
Spent == args.cash_before - monthly_need

\* the decrement left the balance below 80% of the target
BelowThreshold == 5 * Spent < 4 * buffer_target

BtcSold == total_sell(output.sell_plan, "BTC")
EthSold == total_sell(output.sell_plan, "ETH")
BtcShort == ~RatLeqInt(BtcSold, args.btc_balance)

---------------------------------------------------------------------------
(* Properties of calculate_attack_strategy *)

C2_OneDecrementOneCredit ==
    Called =>
        /\ output.action \in {"HOLD", "INSUFFICIENT FUNDS"} => cash_buffer = Spent
        /\ output.action = "REFILL BUFFER" =>
               cash_buffer = Spent + output.amount_to_sell_usd
        /\ output.action \in {"HOLD", "INSUFFICIENT FUNDS", "REFILL BUFFER"}

\* a decrement that takes a non-negative balance below zero and stays there
C2_Witness ==
    /\ Called
    /\ monthly_need > 0
    /\ args.cash_before >= 0
    /\ cash_buffer < 0
    /\ output.action = "INSUFFICIENT FUNDS"

C4_ShortBtcIsInsufficient ==
    (Called /\ BelowThreshold /\ BtcShort) =>
        /\ output.action = "INSUFFICIENT FUNDS"
        /\ cash_buffer = Spent

C4_Witness ==
    /\ Called /\ BelowThreshold /\ BtcShort
    /\ args.btc_balance > 0
    /\ output.action = "INSUFFICIENT FUNDS"

\* C5 as stated: the refill proceeds when the BTC of the plan fits the
\* available quantity or any sale quantity is nonzero, so a nonzero ETH sale
\* lets a refill through although the BTC is short.
C5_PermissiveOr ==
    (Called /\ BelowThreshold /\ BtcShort /\ RatPositive(EthSold)) =>
        /\ output.action = "REFILL BUFFER"
        /\ cash_buffer = buffer_target

\* C5, amended: in the refill branch the decision is REFILL BUFFER exactly
\* when the BTC of the plan fits the available quantity; a nonzero ETH sale
\* never lets a refill through when the BTC is short.
C5_RefillIffBtcFits ==
    (Called /\ BelowThreshold) =>
        /\ output.action = "REFILL BUFFER" <=> ~BtcShort
        /\ (BtcShort /\ RatPositive(EthSold)) => cash_buffer # buffer_target

\* a plan with a nonzero ETH sale and more BTC than is available
C5_Witness ==
    /\ Called /\ BelowThreshold /\ BtcShort
    /\ RatPositive(EthSold)
    /\ output.action = "INSUFFICIENT FUNDS"

\* the quantity a plan sells over all assets
RECURSIVE SumAll(_, _)
SumAll(sell_plan, n) ==
    IF n = 0 THEN Zero
    ELSE RatAdd(SumAll(sell_plan, n - 1), sell_plan[n].sell_amount)

\* the plan obtains less than amount_needed at the price of the call
Shortfall ==
    LET sold == SumAll(output.sell_plan, Len(output.sell_plan))
    IN  (sold.num \div sold.den) * args.btc_price < output.amount_to_sell_usd * QtyScale

\* C6: when the lots of a non-empty store are exhausted before amount_needed
\* is covered, the call does not return REFILL BUFFER and does not credit the
\* buffer with amount_needed.
C6_ShortfallDetected ==
    (Called /\ BelowThreshold /\ tax_lots # <<>> /\ Shortfall) =>
        /\ output.action # "REFILL BUFFER"
        /\ cash_buffer = Spent

---------------------------------------------------------------------------
(* Properties of get_hifo_sell_plan *)

AllPositive(lots) == \A i \in 1..Len(lots) : lots[i].amount > 0

\* sum(sell_amount) * price <= usd_target + price * (half of 10^-8)
NotOverSold(sell_plan, usd_target, price) ==
    LET sold == SumAll(sell_plan, Len(sell_plan))
        k == (usd_target * QtyScale) \div price
        r == (usd_target * QtyScale) % price
    IN  IF sold.den = 1
        THEN \/ sold.num <= k
             \/ sold.num = k + 1 /\ 2 * (price - r) <= price
        ELSE sold.den = price /\ sold.num <= usd_target * QtyScale

\* C7: with positive lot quantities, a positive price and a non-negative
\* target, the quantities of the plan times the price do not exceed the
\* target by more than the rounding of the one partial quantity.
C7_NeverOverSells ==
    /\ (Direct /\ AllPositive(tax_lots)) =>
           NotOverSold(plan, args.usd_target, args.btc_price)
    /\ (Called /\ BelowThreshold /\ AllPositive(tax_lots)) =>
           NotOverSold(output.sell_plan, output.amount_to_sell_usd, args.btc_price)

\* a partial quantity rounded up: the plan sells a hair more than the target
C7_Witness ==
    /\ Direct /\ tax_lots # <<>> /\ AllPositive(tax_lots)
    /\ LET sold == SumAll(plan, Len(plan))
       IN  sold.num * args.btc_price > args.usd_target * QtyScale

\* the position of a lot in the store
StoreIndex(id) == CHOOSE i \in 1..Len(tax_lots) : tax_lots[i].lot_id = id

\* non-increasing cost basis, equal cost bases in store order, and no lot
\* left out whose cost basis is above that of a lot of the plan
HifoOrdered(sell_plan) ==
    /\ \A i, j \in 1..Len(sell_plan) :
           i < j =>
               /\ sell_plan[i].cost_basis >= sell_plan[j].cost_basis
               /\ sell_plan[i].cost_basis = sell_plan[j].cost_basis =>
                      StoreIndex(sell_plan[i].lot_id) < StoreIndex(sell_plan[j].lot_id)
    /\ \A i \in 1..Len(sell_plan), n \in 1..Len(tax_lots) :
           (\A j \in 1..Len(sell_plan) : sell_plan[j].lot_id # tax_lots[n].lot_id) =>
               sell_plan[i].cost_basis >= tax_lots[n].cost_basis_per_unit

\* C8: the instructions are in non-increasing order of cost basis, lots of
\* equal cost basis keep the order of the store, and every selected lot has a
\* cost basis at least that of every unselected lot.
C8_HifoOrder ==
    /\ (Direct /\ tax_lots # <<>>) => HifoOrdered(plan)
    /\ (Called /\ BelowThreshold /\ tax_lots # <<>>) => HifoOrdered(output.sell_plan)

\* a plan that takes two lots of equal cost basis
C8_Witness ==
    /\ Direct
    /\ Len(plan) >= 2
    /\ plan[1].cost_basis = plan[2].cost_basis
    /\ plan[1].lot_id # plan[2].lot_id

IsManual(sell_plan, usd_target, price) ==
    /\ Len(sell_plan) = 1
    /\ sell_plan[1].lot_id = "manual"
    /\ RatEq(sell_plan[1].sell_amount, Rat(usd_target * QtyScale, price))
    /\ \/ sell_plan[1].estimated_gain_loss.per_unit = 0
       \/ sell_plan[1].estimated_gain_loss.qty.num = 0

\* C10: with an empty store get_hifo_sell_plan returns the one synthetic
\* instruction; target 1 at price 50 gives the quantity 0.02 (2000000 of
\* 10^-8); calculate_attack_strategy still returns a decision.
C10_EmptyStoreManual ==
    /\ (Direct /\ tax_lots = <<>>) =>
           /\ IsManual(plan, args.usd_target, args.btc_price)
           /\ (args.usd_target = 1 /\ args.btc_price = 50) =>
                  RatEq(plan[1].sell_amount, Rat(2000000, 1))
    /\ (Called /\ tax_lots = <<>>) =>
           /\ output.action \in {"HOLD", "REFILL BUFFER", "INSUFFICIENT FUNDS"}
           /\ BelowThreshold =>
                  IsManual(output.sell_plan, output.amount_to_sell_usd, args.btc_price)

\* the scenario target 1000 at price 50000, in units of 1000 USD
C10_Witness ==
    /\ Direct /\ tax_lots = <<>>
    /\ args.usd_target = 1 /\ args.btc_price = 50
    /\ Len(plan) = 1

---------------------------------------------------------------------------
(* Realized gain of a plan and of the other ways to sell its quantity *)

\* the total estimated_gain_loss of a plan, in 10^-8 USD, as whole + frac / price
\* with 0 <= frac < price
RECURSIVE GainWhole(_, _)
GainWhole(sell_plan, n) ==
    IF n = 0 THEN 0
    ELSE LET g == sell_plan[n].estimated_gain_loss
         IN  GainWhole(sell_plan, n - 1) + g.per_unit * (g.qty.num \div g.qty.den)

RECURSIVE GainFrac(_, _)
GainFrac(sell_plan, n) ==
    IF n = 0 THEN 0
    ELSE LET g == sell_plan[n].estimated_gain_loss
         IN  GainFrac(sell_plan, n - 1) + g.per_unit * (g.qty.num % g.qty.den)

PlanGain(sell_plan, price) ==
    LET w == GainWhole(sell_plan, Len(sell_plan))
        f == GainFrac(sell_plan, Len(sell_plan))
    IN  [whole |-> w + (f \div price), frac |-> f % price]

\* the quantity a plan computed from lots sells, in 10^-8
RECURSIVE SoldQty(_, _)
SoldQty(sell_plan, n) ==
    IF n = 0 THEN 0 ELSE SoldQty(sell_plan, n - 1) + sell_plan[n].sell_amount.num

RECURSIVE AmountOf(_, _, _)
AmountOf(lots, W, n) ==
    IF n = 0 THEN 0
    ELSE AmountOf(lots, W, n - 1) + (IF n \in W THEN lots[n].amount ELSE 0)

\* the assignments of sale quantities to the lots that sell q in all and sell
\* at most one lot in part.  The gain is linear in the quantities, so over all
\* assignments 0 <= quantity <= lot quantity that sell q it is least at one of
\* these.
Assignments(lots, q) ==
    LET n == Len(lots)
        whole(W) == AmountOf(lots, W, n)
    IN  { [i \in 1..n |-> IF i \in c[1] THEN lots[i].amount
                          ELSE IF i = c[2] THEN q - whole(c[1]) ELSE 0] :
            c \in { d \in (SUBSET (1..n)) \X (1..n) :
                      /\ d[2] \notin d[1]
                      /\ q - whole(d[1]) >= 0
                      /\ q - whole(d[1]) <= lots[d[2]].amount } }

\* the realized gain of an assignment at a price, in 10^-8 USD
RECURSIVE AssignedGain(_, _, _, _)
AssignedGain(lots, f, price, n) ==
    IF n = 0 THEN 0
    ELSE AssignedGain(lots, f, price, n - 1)
             + (price - lots[n].cost_basis_per_unit) * f[n]

\* twice the slack of the rounding: |price - cost basis| of the instruction
\* whose quantity was rounded, 0 when none was
RECURSIVE RoundingSlack(_, _)
RoundingSlack(sell_plan, n) ==
    IF n = 0 THEN 0
    ELSE LET g == sell_plan[n].estimated_gain_loss
             here == IF g.qty.num % g.qty.den = 0 THEN 0
                     ELSE IF g.per_unit < 0 THEN 0 - g.per_unit ELSE g.per_unit
         IN  RoundingSlack(sell_plan, n - 1) + here

\* the gain of the plan is at most that of every assignment selling its quantity
GainMinimal(sell_plan, lots, price) ==
    LET g == PlanGain(sell_plan, price)
    IN  \A f \in Assignments(lots, SoldQty(sell_plan, Len(sell_plan))) :
            LET d == g.whole - AssignedGain(lots, f, price, Len(lots))
            IN  d < 0 \/ (d = 0 /\ g.frac = 0)

\* the same, up to half of 10^-8 of the rounded quantity
GainMinimalRounded(sell_plan, lots, price) ==
    LET g == PlanGain(sell_plan, price)
        slack == RoundingSlack(sell_plan, Len(sell_plan))
    IN  \A f \in Assignments(lots, SoldQty(sell_plan, Len(sell_plan))) :
            LET d == g.whole - AssignedGain(lots, f, price, Len(lots))
            IN  \/ d < 0
                \/ d <= slack /\ 2 * d * price + 2 * g.frac <= slack * price

\* C11 as stated: the total estimated_gain_loss of the plan is at most the
\* realized gain of any other assignment of sale quantities to the lots that
\* sells the same total quantity at that price.
C11_HifoMinimizesGain ==
    /\ (Direct /\ tax_lots # <<>>) => GainMinimal(plan, tax_lots, args.btc_price)
    /\ (Called /\ BelowThreshold /\ tax_lots # <<>>) =>
           GainMinimal(output.sell_plan, tax_lots, args.btc_price)

\* C11, amended: the same up to the 8-digit rounding of the one partial
\* quantity: the gain of the plan exceeds that of no assignment selling the
\* plan's total quantity by more than |price - cost basis| of the partial
\* lot times half of 10^-8.
C11_HifoMinimizesGainRounded ==
    /\ (Direct /\ tax_lots # <<>>) => GainMinimalRounded(plan, tax_lots, args.btc_price)
    /\ (Called /\ BelowThreshold /\ tax_lots # <<>>) =>
           GainMinimalRounded(output.sell_plan, tax_lots, args.btc_price)

\* a plan with a rounded partial quantity from a store that offers another,
\* dearer way to sell the same quantity
C11_Witness ==
    /\ Direct /\ Len(tax_lots) >= 2
    /\ RoundingSlack(plan, Len(plan)) > 0
    /\ \E f \in Assignments(tax_lots, SoldQty(plan, Len(plan))) :
           AssignedGain(tax_lots, f, args.btc_price, Len(tax_lots))
               > PlanGain(plan, args.btc_price).whole + 1

---------------------------------------------------------------------------
(* The instructions of a plan *)

\* the instruction carries the id, asset, cost basis, acquisition date and
\* location of its lot, and its gain is per unit price - cost basis
CopiesLot(sale, lots, price) ==
    \E n \in 1..Len(lots) :
        /\ sale.lot_id = lots[n].lot_id
        /\ sale.asset = lots[n].asset
        /\ sale.cost_basis = lots[n].cost_basis_per_unit
        /\ sale.date_acquired = lots[n].date_acquired
        /\ sale.location = lots[n].location
        /\ sale.estimated_gain_loss.per_unit = price - lots[n].cost_basis_per_unit

\* the USD (in 10^-8) the target still lacks before instruction i
Lacking(sell_plan, usd_target, price, i) ==
    usd_target * QtyScale - price * SoldQty(sell_plan, i - 1)

\* instruction i sells its whole lot, and its gain is taken on that quantity
SellsLot(sale, lots) ==
    \E n \in 1..Len(lots) :
        /\ sale.lot_id = lots[n].lot_id
        /\ sale.sell_amount = Rat(lots[n].amount, 1)
        /\ RatEq(sale.estimated_gain_loss.qty, sale.sell_amount)

\* instruction i sells lacking / price: its gain is taken on that quantity,
\* its sell_amount is that quantity to the nearest 10^-8
SellsLacking(sale, lacking, price) ==
    /\ RatEq(sale.estimated_gain_loss.qty, Rat(lacking, price))
    /\ sale.sell_amount.den = 1
    /\ 2 * (sale.sell_amount.num * price - lacking) <= price
    /\ 2 * (lacking - sale.sell_amount.num * price) <= price

GainOnSold(sell_plan, lots, price) ==
    \A i \in 1..Len(sell_plan) :
        /\ CopiesLot(sell_plan[i], lots, price)
        /\ RatEq(sell_plan[i].estimated_gain_loss.qty, sell_plan[i].sell_amount)

GainOnUnrounded(sell_plan, lots, usd_target, price) ==
    \A i \in 1..Len(sell_plan) :
        /\ CopiesLot(sell_plan[i], lots, price)
        /\ \/ SellsLot(sell_plan[i], lots)
           \/ SellsLacking(sell_plan[i], Lacking(sell_plan, usd_target, price, i), price)

\* C12 as stated: the gain/loss of every instruction is (price - cost basis
\* per unit) * quantity sold, and the instruction copies the lot's id, asset,
\* cost basis, acquisition date and location.
C12_GainOnQuantitySold ==
    /\ (Direct /\ tax_lots # <<>>) => GainOnSold(plan, tax_lots, args.btc_price)
    /\ (Called /\ BelowThreshold /\ tax_lots # <<>>) =>
           GainOnSold(output.sell_plan, tax_lots, args.btc_price)

\* C12, amended: every instruction copies its lot's fields and its gain/loss
\* is (price - cost basis per unit) times the unrounded quantity: the lot's
\* quantity for a whole lot, remaining / price for the partial lot, whose
\* sell_amount is that quantity rounded to 8 decimals.  Two lots of basis 2
\* and 3 at price 1 and target 1 give one instruction on the lot of basis 3,
\* of quantity 1 and gain/loss -2.
C12_GainOnUnroundedQuantity ==
    /\ (Direct /\ tax_lots # <<>>) =>
           /\ GainOnUnrounded(plan, tax_lots, args.usd_target, args.btc_price)
           /\ (/\ Len(tax_lots) = 2 /\ args.btc_price = 1 /\ args.usd_target = 1
               /\ {tax_lots[1].lot_id, tax_lots[2].lot_id} = {"tx_e", "tx_a"}) =>
                  /\ Len(plan) = 1
                  /\ plan[1].lot_id = "tx_a"
                  /\ plan[1].sell_amount = Rat(QtyScale, 1)
                  /\ PlanGain(plan, 1) = [whole |-> (0 - 2) * QtyScale, frac |-> 0]
    /\ (Called /\ BelowThreshold /\ tax_lots # <<>>) =>
           GainOnUnrounded(output.sell_plan, tax_lots, output.amount_to_sell_usd,
                           args.btc_price)

\* a whole lot followed by a partial lot whose quantity is rounded and whose
\* gain per unit is not 0
C12_Witness ==
    /\ Direct /\ Len(plan) = 2
    /\ plan[1].sell_amount.num > 0
    /\ plan[2].estimated_gain_loss.per_unit # 0
    /\ ~RatEq(plan[2].estimated_gain_loss.qty, plan[2].sell_amount)

---------------------------------------------------------------------------
(* Properties of is_long_term *)

\* the acquisition date of the last is_long_term call is missing or unparsable
NoUsableDate == op = "is_long_term" /\ args.date_acquired.kind \in {"empty", "bad"}

\* C13: is_long_term returns true whenever the acquisition date is missing
\* (empty string) or cannot be parsed, for every reference date.
C13_MissingDateIsLongTerm == NoUsableDate => long_term

\* C14: in a REFILL BUFFER decision the warnings are the lot ids of the
\* instructions of the plan that is_long_term classifies short-term, one
\* each and in plan order; HOLD and INSUFFICIENT FUNDS carry no warnings.
C14_WarningsPerShortTermSale ==
    Called =>
        LET sell_plan == output.sell_plan
            short == { i \in 1..Len(sell_plan) :
                         ~is_long_term(sell_plan[i].date_acquired, args.current_date) }
        IN  IF output.action = "REFILL BUFFER"
            THEN /\ Len(output.warnings) = Cardinality(short)
                 /\ \A k \in 1..Len(output.warnings) :
                        \E i \in short :
                            /\ output.warnings[k] = sell_plan[i].lot_id
                            /\ Cardinality({ j \in short : j < i }) = k - 1
            ELSE output.warnings = <<>>

\* a refill from a long-term lot and a short-term lot: one warning, for the
\* second instruction
C14_Witness ==
    /\ Called /\ output.action = "REFILL BUFFER"
    /\ Len(output.sell_plan) = 2
    /\ is_long_term(output.sell_plan[1].date_acquired, args.current_date)
    /\ ~is_long_term(output.sell_plan[2].date_acquired, args.current_date)
    /\ output.warnings = <<output.sell_plan[2].lot_id>>

---------------------------------------------------------------------------
(* Properties of Portfolio.analyze *)

Analyzed == pf_op = "analyze"

\* the value of holding i of the portfolio
ValueAt(i) == holdings[i].amount * holdings[i].current_price

RECURSIVE SumValues(_)
SumValues(I) ==
    IF I = {} THEN 0
    ELSE LET i == CHOOSE j \in I : TRUE IN ValueAt(i) + SumValues(I \ {i})

Positions == 1..Len(holdings)
Volatile == { i \in Positions : holdings[i].asset \in {"BTC", "ETH", "SOL", "MATIC"} }
Largest == CHOOSE i \in Positions : \A j \in Positions : ValueAt(j) <= ValueAt(i)

\* C15: the risk score of analyze is min(100, 50 * largest / total +
\* 50 * volatile / total), 0 when the total value is 0, always within
\* [0, 100]; a single holding of positive value scores 50 if it is not
\* volatile and 100 if it is.
C15_RiskScore ==
    (Analyzed /\ holdings # <<>>) =>
        LET risk == pf_ret.risk_score
            total == SumValues(Positions)
            raw == 50 * ValueAt(Largest) + 50 * SumValues(Volatile)
        IN  /\ risk.den > 0 /\ risk.num >= 0 /\ risk.num <= 100 * risk.den
            /\ total = 0 => risk.num = 0
            /\ total > 0 =>
                   IF raw > 100 * total THEN risk = Rat(100, 1)
                   ELSE risk.num * total = raw * risk.den
            /\ (Len(holdings) = 1 /\ total > 0) =>
                   IF holdings[1].asset \in {"BTC", "ETH", "SOL", "MATIC"}
                   THEN risk.num = 100 * risk.den
                   ELSE risk.num = 50 * risk.den

\* two holdings, the larger one volatile: a score strictly between 50 and 100
C15_Witness ==
    /\ Analyzed /\ Len(holdings) = 2
    /\ Volatile = {Largest}
    /\ pf_ret.risk_score.num > 50 * pf_ret.risk_score.den
    /\ pf_ret.risk_score.num < 100 * pf_ret.risk_score.den

\* the asset types of the specification
TypeOf(asset) ==
    IF asset \in {"BTC", "ETH"} THEN asset
    ELSE IF asset \in {"USDC", "USDT", "DAI"} THEN "STABLECOIN" ELSE "ALTCOIN"

Symbols == { holdings[i].asset : i \in Positions }
Types == { TypeOf(a) : a \in Symbols }

\* C16: the diversification score is min(100, 10 * number of unique asset
\* symbols held + 15 * number of distinct asset types), within [0, 100]; a
\* second holding of an asset already held does not change it.
C16_DiversificationCountsSymbols ==
    (Analyzed /\ holdings # <<>>) =>
        LET score == 10 * Cardinality(Symbols) + 15 * Cardinality(Types)
        IN  /\ pf_ret.diversification_score = IF score > 100 THEN 100 ELSE score
            /\ pf_ret.diversification_score \in 0..100

\* the advice the four gates of the specification select, in order
Advice(analysis) ==
    (IF analysis.risk_score.num > 75 * analysis.risk_score.den
     THEN <<"diversify">> ELSE <<>>)
    \o (IF analysis.diversification_score < 40 THEN <<"add variety">> ELSE <<>>)
    \o (IF "STABLECOIN" \notin Types THEN <<"add stablecoins">> ELSE <<>>)
    \o (IF analysis.pnl_percentage.num > 50 * analysis.pnl_percentage.den
        THEN <<"take profit">> ELSE <<>>)

\* C17: the recommendations of an analysis are, in order and each on its own
\* gate: diversify iff risk_score > 75, add variety iff
\* diversification_score < 40, add stablecoins iff no holding is USDC, USDT
\* or DAI, take profit iff pnl_percentage > 50.
C17_RecommendationGates ==
    (Analyzed /\ holdings # <<>>) => pf_ret.recommendations = Advice(pf_ret)

\* C18: a PortfolioAnalysis, returned by analyze or constructed from
\* total_value and total_cost, has unrealized_pnl = total_value - total_cost
\* and, for total_cost > 0, pnl_percentage = unrealized_pnl / total_cost * 100.
C18_AnalysisTotalsDerived ==
    pf_ret.kind = "analysis" =>
        /\ pf_ret.unrealized_pnl = pf_ret.total_value - pf_ret.total_cost
        /\ pf_ret.total_cost > 0 =>
               RatEq(pf_ret.pnl_percentage,
                     Rat(100 * pf_ret.unrealized_pnl, pf_ret.total_cost))

\* C19: the properties read from a holding are cost_basis = amount *
\* avg_cost, current_value = amount * current_price, unrealized_pnl =
\* current_value - cost_basis, and pnl_percentage = unrealized_pnl /
\* cost_basis * 100, or 0 when cost_basis is 0.
C19_HoldingProperties ==
    pf_op = "Holding" =>
        LET h == holdings[pf_args.index]
            pct == pf_ret.pnl_percentage
        IN  /\ pf_ret.cost_basis = h.amount * h.avg_cost
            /\ pf_ret.current_value = h.amount * h.current_price
            /\ pf_ret.unrealized_pnl = pf_ret.current_value - pf_ret.cost_basis
            /\ pct.den > 0
            /\ IF pf_ret.cost_basis = 0 THEN pct.num = 0
               ELSE pct.num * pf_ret.cost_basis = 100 * pf_ret.unrealized_pnl * pct.den

\* a holding bought at cost 0 that has a value: the percentage is 0
C19_Witness ==
    /\ pf_op = "Holding"
    /\ pf_ret.cost_basis = 0 /\ pf_ret.current_value > 0
    /\ pf_ret.unrealized_pnl > 0
    /\ pf_ret.pnl_percentage = Zero

---------------------------------------------------------------------------
(* Properties of ExitStrategy *)

\* the conditions of a plan that an analysis dict satisfies, in plan order
Satisfied(analysis) ==
    LET goal == exit_plan.retirement_goal
        aggressive == exit_plan.risk_tolerance = "aggressive"
        value(k) == IF k \in DOMAIN analysis THEN analysis[k] ELSE 0
    IN  (IF value("total_value") >= goal THEN <<"target_value">> ELSE <<>>)
        \o (IF value("pnl_percentage") >= (IF aggressive THEN 50 ELSE 100)
            THEN <<"percentage_gain">> ELSE <<>>)
        \o (IF value("risk_score") >= (IF aggressive THEN 70 ELSE 50)
            THEN <<"risk_threshold">> ELSE <<>>)

\* C20: create_exit_plan leaves a plan; with a plan generate_recommendations
\* returns, and stores in place of any earlier list, one recommendation per
\* condition the analysis satisfies, in condition order; should_exit returns
\* true iff that list would be non-empty, and false when no plan exists.
C20_OneRecommendationPerCondition ==
    /\ ex_op.name = "create_exit_plan" =>
           /\ exit_plan # NoExitPlan
           /\ exit_plan.retirement_goal = ex_op.retirement_goal
    /\ (ex_op.name = "generate_recommendations" /\ exit_plan # NoExitPlan) =>
           /\ ex_ret.kind = "list"
           /\ ex_ret.value = recommendations
           /\ Len(recommendations) = Len(Satisfied(ex_op.analysis))
           /\ \A i \in 1..Len(recommendations) :
                  recommendations[i].trigger = Satisfied(ex_op.analysis)[i]
    /\ ex_op.name = "should_exit" =>
           /\ ex_ret.kind = "bool"
           /\ ex_ret.value =
                  (exit_plan # NoExitPlan /\ Satisfied(ex_op.analysis) # <<>>)

---------------------------------------------------------------------------
(* Further properties of calculate_attack_strategy *)

\* C21: in every decision, whatever the action, new_buffer is the balance
\* of the instance when the call returns and buffer_before the balance when
\* it started.
C21_BufferAfterReported ==
    Called =>
        /\ output.new_buffer = cash_buffer
        /\ output.buffer_before = args.cash_before

---------------------------------------------------------------------------
(* Properties of Portfolio.update_prices *)

\* C23: update_prices sets current_price to the mapped price for exactly the
\* holdings whose asset is a key of the mapping, and leaves every other
\* current_price, every asset, amount and avg_cost, and the number and the
\* order of the holdings unchanged.
C23_UpdatePricesOnlyMapped ==
    [][ pf_op' = "update_prices" =>
          LET prices == pf_args'.prices
          IN  /\ Len(holdings') = Len(holdings)
              /\ \A i \in 1..Len(holdings) :
                     /\ holdings'[i].asset = holdings[i].asset
                     /\ holdings'[i].amount = holdings[i].amount
                     /\ holdings'[i].avg_cost = holdings[i].avg_cost
                     /\ holdings'[i].symbol = holdings[i].symbol
                     /\ holdings'[i].current_price =
                            IF holdings[i].asset \in DOMAIN prices
                            THEN prices[holdings[i].asset]
                            ELSE holdings[i].current_price ]_vars

\* an update that reprices the first holding and has no key for the second,
\* whose price differs from the default 0
C23_Witness ==
    /\ pf_op = "update_prices" /\ Len(holdings) = 2
    /\ holdings[1].asset \in DOMAIN pf_args.prices
    /\ holdings[1].current_price = pf_args.prices[holdings[1].asset]
    /\ holdings[1].current_price # holdings[1].avg_cost
    /\ holdings[2].asset \notin DOMAIN pf_args.prices
    /\ holdings[2].current_price > 0

---------------------------------------------------------------------------
(* The walk of get_hifo_sell_plan *)

\* the quantity of the lot an instruction sells from
LotAmount(sale, lots) ==
    lots[CHOOSE n \in 1..Len(lots) : lots[n].lot_id = sale.lot_id].amount

\* every instruction answers a need still open; it takes its lot whole
\* exactly when the lot's value is within that need, and otherwise takes
\* need / price (to the nearest 10^-8), less than the lot, as the last
\* instruction; a plan that leaves a need open has taken every lot
WalkShape(sell_plan, lots, usd_target, price) ==
    /\ \A i \in 1..Len(sell_plan) :
           LET lacking == Lacking(sell_plan, usd_target, price, i)
               amount == LotAmount(sell_plan[i], lots)
               sold == sell_plan[i].sell_amount.num
           IN  /\ lacking > 0
               /\ sell_plan[i].sell_amount.den = 1
               /\ sold <= amount
               /\ IF amount * price <= lacking
                  THEN sold = amount
                  ELSE /\ i = Len(sell_plan)
                       /\ 2 * (sold * price - lacking) <= price
                       /\ 2 * (lacking - sold * price) <= price
               /\ sold < amount => i = Len(sell_plan)
    /\ Cardinality({ i \in 1..Len(sell_plan) :
                       sell_plan[i].sell_amount.num
                           < LotAmount(sell_plan[i], lots) }) <= 1
    /\ \A i, j \in 1..Len(sell_plan) :
           i # j => sell_plan[i].lot_id # sell_plan[j].lot_id
    /\ Lacking(sell_plan, usd_target, price, Len(sell_plan) + 1) > 0 =>
           \/ Len(sell_plan) = Len(lots)
           \/ /\ sell_plan # <<>>
              /\ sell_plan[Len(sell_plan)].sell_amount.num
                     < LotAmount(sell_plan[Len(sell_plan)], lots)

---------------------------------------------------------------------------
(* The one-year line of is_long_term *)

\* a calendar date as the number yyyymmdd
DayStamp(date) == date.y * 10000 + date.m * 100 + date.d

\* is_long_term was the last call, on a date that parses, and the reference
\* date's month and day exist in the year before
OnCalendar ==
    /\ op = "is_long_term"
    /\ args.date_acquired.kind = "date"
    /\ ~(args.current_date.m = 2 /\ args.current_date.d = 29)

C26_LeapDayReference ==
    (/\ op = "is_long_term"
     /\ args.date_acquired.kind = "date"
     /\ args.current_date.m = 2 /\ args.current_date.d = 29
     /\ DayStamp(args.date_acquired) <= DayStamp(args.current_date) - 20000)
        => long_term

---------------------------------------------------------------------------
(* The quantities a decision reports *)

\* the quantity of an asset over a plan, rounded to 10^-8
PlanQuantity(sell_plan, asset) ==
    LET sum == total_sell(sell_plan, asset)
    IN  RoundHalfEven(sum.num, sum.den)

\* C27: in every decision the reported BTC and ETH quantities equal the sums
\* of the sale quantities of that asset over the decision's plan, rounded to
\* 8 digits, and the reported USD amount is nonzero only if the plan is not
\* empty.
C27_QuantitiesMatchPlan ==
    Called =>
        /\ output.amount_to_sell_btc = PlanQuantity(output.sell_plan, "BTC")
        /\ output.amount_to_sell_eth = PlanQuantity(output.sell_plan, "ETH")
        /\ output.amount_to_sell_usd # 0 => output.sell_plan # <<>>

---------------------------------------------------------------------------
(* Sequences of calculate_attack_strategy calls *)

\* buffer_years, recovered from the target the constructor derived from it
BufferYearsOf == buffer_target \div (MonthsPerYear * monthly_need)

\* floor(2.4 * buffer_years)
HoldWindow == (24 * BufferYearsOf) \div 10

\* C28: for monthly_need > 0 and an integer buffer_years >= 1, the
\* floor(2.4 * buffer_years) calls that follow a REFILL BUFFER decision all
\* return HOLD, and the call after those is the first to enter the refill
\* branch again.
C28_HoldsAfterRefill ==
    (Called /\ monthly_need > 0 /\ since_refill >= 1) =>
        /\ since_refill <= HoldWindow =>
               /\ output.action = "HOLD"
               /\ output.amount_to_sell_usd = 0
               /\ output.sell_plan = <<>>
        /\ since_refill = HoldWindow + 1 =>
               /\ output.action # "HOLD"
               /\ output.amount_to_sell_usd > 0
               /\ output.sell_plan # <<>>

---------------------------------------------------------------------------
(* Malformed lot records *)

\* the fields of a record that are texts and no numbers
Malformed(record) ==
    { f \in {"amount", "cost_basis", "fee_paid"} : FloatRaises(record[f]) }

\* C22: loading lot records never fails on malformed fields:
\* parse_tax_lots_csv and add_tax_lots return for every input, a lot whose
\* quantity, cost basis or fee is unparsable has that field at zero, and a
\* parsed lot whose acquisition date is unparsable has is_long_term = true.
C22_MalformedFieldsDefault ==
    /\ loading.call = "parse_tax_lots_csv" =>
           /\ loading.ret.kind = "list"
           /\ Len(loading.ret.value) = Len(loading.data)
           /\ \A i \in 1..Len(loading.data) :
                  /\ \A f \in Malformed(loading.data[i]) :
                         loading.ret.value[i][f] = 0
                  /\ loading.data[i].date_acquired.kind = "bad" =>
                         loading.ret.value[i].is_long_term
    /\ loading.call = "add_tax_lots" =>
           /\ loading.ret = NoReturn
           /\ Len(tax_lots) = Len(loading.data)
           /\ \A i \in 1..Len(loading.data) :
                  /\ "amount" \in Malformed(loading.data[i]) =>
                         tax_lots[i].amount = 0
                  /\ "cost_basis" \in Malformed(loading.data[i]) =>
                         tax_lots[i].cost_basis_per_unit = 0
                  /\ "fee_paid" \in Malformed(loading.data[i]) =>
                         tax_lots[i].fee_paid = 0

=============================================================================
